---- MODULE Spec2Model ----
(***************************************************************************)
(* Model of src/app.py: a Flask webhook that records participations in a   *)
(* SQLite table, answers history/listing queries, lets the administrator   *)
(* undo the last record, and compiles the table into a report (CSV + XLSX  *)
(* files and a summary notification), on demand or from a cron job.        *)
(*                                                                         *)
(* Every webhook invocation and every report run is a process.  A step of  *)
(* a process is one access to shared state (one SQL statement with its     *)
(* commit, one file open/close, one outbound notification); the purely     *)
(* local computation around it belongs to the same step.                   *)
(***************************************************************************)
EXTENDS Integers, Sequences, FiniteSets, TLC

\* ------------------------------------------------------------------ bounds

\* INSERTs accepted in one behaviour (a 'record' request is refused beyond).
MaxId == 2
\* INSERTs accepted in one behaviour of SpecParse.
MaxParseId == 1
\* Last reading of the clock; datetime.now() returns a value in 0..MaxTime.
MaxTime == 1
\* Clock readings per minute.  A reading on the minute has microsecond = 0.
TicksPerMinute == 2
\* Rows of the largest table SpecRecent starts from.
MaxRows == 12
\* 'record' requests served within one clock reading, at most, in the tables
\* SpecRecent starts from.
MaxTie == 3
\* Rows of the largest table SpecGroups starts from.
MaxGroupRows == 3
\* Calls of init_db in one behaviour of SpecBoot.
MaxInitCalls == 3

\* ------------------------------------------------------------------ text

\* Texts are sequences of one-character strings.
UpperCase == <<"A", "B", "C", "D", "E", "F", "G", "H", "I", "J", "K", "L", "M",
               "N", "O", "P", "Q", "R", "S", "T", "U", "V", "W", "X", "Y", "Z">>
LowerCase == <<"a", "b", "c", "d", "e", "f", "g", "h", "i", "j", "k", "l", "m",
               "n", "o", "p", "q", "r", "s", "t", "u", "v", "w", "x", "y", "z">>

LowerChar(c) ==
    IF \E i \in 1..Len(UpperCase) : UpperCase[i] = c
    THEN LowerCase[CHOOSE i \in 1..Len(UpperCase) : UpperCase[i] = c]
    ELSE c

\* str.lower()
Lower(s) == [i \in 1..Len(s) |-> LowerChar(s[i])]

IsSpace(c) == c = " "

RECURSIVE LStrip(_)
LStrip(s) == IF s # <<>> /\ IsSpace(Head(s)) THEN LStrip(Tail(s)) ELSE s

RECURSIVE RStrip(_)
RStrip(s) ==
    IF s # <<>> /\ IsSpace(s[Len(s)]) THEN RStrip(SubSeq(s, 1, Len(s) - 1)) ELSE s

\* str.strip()
Strip(s) == RStrip(LStrip(s))

\* str.startswith(prefix)
StartsWith(s, prefix) ==
    /\ Len(prefix) <= Len(s)
    /\ SubSeq(s, 1, Len(prefix)) = prefix

\* c in s
Contains(s, c) == \E i \in 1..Len(s) : s[i] = c

\* s.split(c, 1)[1]: the text after the first occurrence of c.
AfterFirst(s, c) ==
    LET i == CHOOSE k \in 1..Len(s) : s[k] = c /\ \A j \in 1..(k - 1) : s[j] # c
    IN  SubSeq(s, i + 1, Len(s))

\* len(s.split()): the number of maximal runs of non-space characters.
NumTokens(s) ==
    Cardinality({i \in 1..Len(s) :
                    /\ ~IsSpace(s[i])
                    /\ (i = 1 \/ IsSpace(s[i - 1]))})

KW_participei == <<"p", "a", "r", "t", "i", "c", "i", "p", "e", "i">>
KW_gravei == <<"g", "r", "a", "v", "e", "i">>
KW_participar == <<"/", "p", "a", "r", "t", "i", "c", "i", "p", "a", "r">>
KW_meu_historico == <<"/", "m", "e", "u", " ", "h", "i", "s", "t", "o", "r", "i", "c", "o">>
KW_ajuda == <<"/", "a", "j", "u", "d", "a">>
KW_relatorio_agora == <<"/", "r", "e", "l", "a", "t", "o", "r", "i", "o", " ", "a", "g", "o", "r", "a">>
KW_ultimos_registros == <<"/", "u", "l", "t", "i", "m", "o", "s", " ", "r", "e", "g", "i", "s", "t", "r", "o", "s">>
KW_corrigir_ultimo == <<"/", "c", "o", "r", "r", "i", "g", "i", "r", " ", "u", "l", "t", "i", "m", "o">>

\* The request bodies the model sends.
BodyParticipeiClipe == <<"P", "a", "r", "t", "i", "c", "i", "p", "e", "i", ":", " ", "c", "l", "i", "p", "e", " ", "f", "i", "n", "a", "l">>
BodyGravei == <<" ", "G", "R", "A", "V", "E", "I", " ">>
BodyParticiparA == <<"/", "p", "a", "r", "t", "i", "c", "i", "p", "a", "r", " ", "a", ":", "b">>
BodyParticipeiColon == <<"p", "a", "r", "t", "i", "c", "i", "p", "e", "i", ":">>
BodyGraveiColons == <<"G", "r", "a", "v", "e", "i", ":", " ", "A", ":", "b", " ">>
BodyHistorico == <<"/", "M", "e", "u", " ", "H", "i", "s", "t", "o", "r", "i", "c", "o">>
BodyAjuda == <<"/", "a", "j", "u", "d", "a">>
BodyAjudaExtra == <<"/", "a", "j", "u", "d", "a", " ", "x">>
BodyRelatorio == <<"/", "r", "e", "l", "a", "t", "o", "r", "i", "o", " ", "a", "g", "o", "r", "a">>
BodyUltimos == <<"/", "u", "l", "t", "i", "m", "o", "s", " ", "r", "e", "g", "i", "s", "t", "r", "o", "s">>
BodyCorrigir == <<"/", "c", "o", "r", "r", "i", "g", "i", "r", " ", "u", "l", "t", "i", "m", "o">>
BodyCorrigirOutro == <<"/", "c", "o", "r", "r", "i", "g", "i", "r", " ", "u", "l", "t", "i", "m", "o", " ", "u">>
BodyCorrigirGlued == <<"/", "c", "o", "r", "r", "i", "g", "i", "r", " ", "u", "l", "t", "i", "m", "o", "x">>
BodyEmpty == <<>>
BodyBlank == <<" ", " ">>
BodyOi == <<"o", "i">>

Bodies ==
    {BodyParticipeiClipe, BodyGravei, BodyParticiparA, BodyParticipeiColon,
     BodyGraveiColons, BodyHistorico, BodyAjuda, BodyAjudaExtra, BodyRelatorio, BodyUltimos,
     BodyCorrigir, BodyCorrigirOutro, BodyCorrigirGlued, BodyEmpty, BodyBlank,
     BodyOi}

\* ------------------------------------------------------------- identities

\* ADMIN_PHONE_NUMBER and one other sender ('From' of the request).
ADMIN_PHONE_NUMBER == "whatsapp:+admin"
MEMBER_PHONE_NUMBER == "whatsapp:+member"
Senders == {ADMIN_PHONE_NUMBER, MEMBER_PHONE_NUMBER}

\* 'ProfileName' of the request: absent, or a name (two senders may share it).
NoParam == "<absent>"
ProfileParams == {NoParam, "Ana"}

\* SQL NULL / Python None, where a text may stand (no text has this shape).
None == <<"None">>

\* ---------------------------------------------------------- the webhook's parse

\* As Branch, with the administrator's commands open to every sender.
BranchNoAdminCheck(from_number, body) ==
    LET incoming_msg == Strip(body)
        msg_lower    == Lower(incoming_msg)
    IN  IF \/ StartsWith(msg_lower, KW_participei)
           \/ StartsWith(msg_lower, KW_gravei)
           \/ StartsWith(msg_lower, KW_participar)
        THEN "record"
        ELSE IF msg_lower = KW_meu_historico THEN "history"
        ELSE IF msg_lower = KW_ajuda THEN "help"
        ELSE IF msg_lower = KW_relatorio_agora THEN "report"
        ELSE IF msg_lower = KW_ultimos_registros THEN "last10"
        ELSE IF StartsWith(msg_lower, KW_corrigir_ultimo)
        THEN IF NumTokens(msg_lower) > 2 THEN "fix_other" ELSE "fix_self"
        ELSE "none"

\* As Branch, with '/corrigir ultimo <argument>' handled as '/corrigir ultimo'.
BranchIgnoringArgument(from_number, body) ==
    LET incoming_msg == Strip(body)
        msg_lower    == Lower(incoming_msg)
    IN  IF \/ StartsWith(msg_lower, KW_participei)
           \/ StartsWith(msg_lower, KW_gravei)
           \/ StartsWith(msg_lower, KW_participar)
        THEN "record"
        ELSE IF msg_lower = KW_meu_historico THEN "history"
        ELSE IF msg_lower = KW_ajuda THEN "help"
        ELSE IF from_number = ADMIN_PHONE_NUMBER
        THEN IF msg_lower = KW_relatorio_agora THEN "report"
             ELSE IF msg_lower = KW_ultimos_registros THEN "last10"
             ELSE IF StartsWith(msg_lower, KW_corrigir_ultimo) THEN "fix_self"
             ELSE "none"
        ELSE "none"

\* The branch of whatsapp_webhook's if/elif chain a request takes.
Branch(from_number, body) ==
    LET incoming_msg == Strip(body)
        msg_lower    == Lower(incoming_msg)
    IN  IF \/ StartsWith(msg_lower, KW_participei)
           \/ StartsWith(msg_lower, KW_gravei)
           \/ StartsWith(msg_lower, KW_participar)
        THEN "record"
        ELSE IF msg_lower = KW_meu_historico THEN "history"
        ELSE IF msg_lower = KW_ajuda THEN "help"
        ELSE IF from_number = ADMIN_PHONE_NUMBER
        THEN IF msg_lower = KW_relatorio_agora THEN "report"
             ELSE IF msg_lower = KW_ultimos_registros THEN "last10"
             ELSE IF StartsWith(msg_lower, KW_corrigir_ultimo)
             THEN IF NumTokens(msg_lower) > 2 THEN "fix_other" ELSE "fix_self"
             ELSE "none"
        ELSE "none"

\* As VideoTitle, with the title taken from msg_lower.
VideoTitleOfLowered(body) ==
    LET msg_lower == Lower(Strip(body))
    IN  IF Contains(msg_lower, ":")
        THEN Strip(AfterFirst(msg_lower, ":"))
        ELSE None

\* video_title of a 'record' request.
VideoTitle(body) ==
    LET incoming_msg == Strip(body)
    IN  IF Contains(incoming_msg, ":")
        THEN Strip(AfterFirst(incoming_msg, ":"))
        ELSE None

\* request.values.get('ProfileName', from_number)
ProfileName(from_number, param) ==
    IF param = NoParam THEN from_number ELSE param

\* ------------------------------------------------------------------ state

\* The webhook's concurrent request handlers and the scheduler's job thread.
Workers == {"w1", "w2"}
Sched == "cron"
Procs == Workers \cup {Sched}

\* The export files of a report run.
CSV == "relatorio_participacao.csv"
XLSX == "relatorio_participacao.xlsx"
FileNames == {CSV, XLSX}

VARIABLES
    ledger,           \* the rows of table participations
    sqlite_sequence,  \* AUTOINCREMENT's record of the largest rowid ever used
    now,              \* the clock datetime.now() reads
    pc,               \* where each process is
    loc,              \* each process's local variables
    files,            \* reports/: per file, who is writing it and what it holds
    served,           \* what the last serve_report call sent
    lastInserted,     \* history: rowid of the last INSERT, 0 once a DELETE removed a row
    issued,           \* history: every rowid an INSERT was ever given
    schema,           \* table participations exists
    init_calls        \* history: per call of init_db so far, what it found

vars == <<ledger, sqlite_sequence, now, pc, loc, files, served, lastInserted, issued,
          schema, init_calls>>

Max(a, b) == IF a >= b THEN a ELSE b
SetMax(S) == IF S = {} THEN 0 ELSE CHOOSE x \in S : \A y \in S : y <= x

\* Local variables of a process that is not running.  from_number,
\* profile_name, incoming_msg, video_title, records, df, report_summary and
\* response_msg are the code's; cmd is the branch taken, ts the value of
\* datetime.now(), last_record the id the SELECT of delete_last_user_record
\* found, status the HTTP status of the answer.  Kept for the properties:
\* sent (the texts handed to client.messages.create), wrote (the files opened
\* for writing), commits (conn.commit() calls), rowcount (rows the INSERT or
\* DELETE changed), alone (no other process changed the table since the
\* SELECT of delete_last_user_record).
Blank ==
    [from_number |-> "", profile_name |-> "", incoming_msg |-> <<>>, cmd |-> "",
     video_title |-> None,
     ts |-> 0, last_record |-> 0, records |-> <<>>, on_demand |-> FALSE,
     df |-> <<>>, report_summary |-> <<>>, response_msg |-> <<>>, status |-> 0,
     sent |-> <<>>, wrote |-> {}, commits |-> 0, rowcount |-> 0, alone |-> TRUE]

NoFileState == [exists |-> FALSE, writers |-> {}, data |-> <<>>]

\* What the first call of init_db finds: no table.
FirstCall == [exists |-> FALSE, rows |-> 0, seq |-> 0]

\* The program when it serves: the module was loaded, init_db has run.
Init ==
    /\ ledger = {}
    /\ sqlite_sequence = 0
    /\ now = 0
    /\ pc = [p \in Procs |-> "idle"]
    /\ loc = [p \in Procs |-> Blank]
    /\ files = [f \in FileNames |-> NoFileState]
    /\ served = <<"", "nothing">>
    /\ lastInserted = 0
    /\ issued = {}
    /\ schema = TRUE
    /\ init_calls = <<FirstCall>>

\* ----------------------------------------------------------- the ledger store

\* DROP TABLE IF EXISTS participations; CREATE TABLE participations (...): the
\* table is made anew, and its entry in sqlite_sequence goes with it.
DropAndCreateTable(exists, rows, seq) == [rows |-> {}, seq |-> 0]

\* CREATE TABLE IF NOT EXISTS participations (...): the rows and the
\* AUTOINCREMENT counter of the database after the statement.
CreateTableIfNotExists(exists, rows, seq) ==
    IF exists THEN [rows |-> rows, seq |-> seq] ELSE [rows |-> {}, seq |-> 0]

\* The rowid an INSERT gets without AUTOINCREMENT: one more than the largest
\* rowid in the table.
NextRowIdNoAutoincrement(rows, seq) == SetMax({r.id : r \in rows}) + 1

\* id INTEGER PRIMARY KEY AUTOINCREMENT: one more than the largest rowid the
\* table ever held.
NextRowId(rows, seq) == Max(seq, SetMax({r.id : r \in rows})) + 1

\* The orders in which "ORDER BY participation_date DESC" may return rows S:
\* rows of equal participation_date come in an order SQL leaves open.
\* (Every such order starts with a row of the largest participation_date and
\* goes on with an order of the other rows.)
RECURSIVE OrderByDateDesc(_)
OrderByDateDesc(S) ==
    IF S = {} THEN {<<>>}
    ELSE UNION {{<<r>> \o s : s \in OrderByDateDesc(S \ {r})} :
                   r \in {x \in S : \A y \in S :
                              x.participation_date >= y.participation_date}}

\* The orders in which "ORDER BY participation_date ASC" may return rows S.
RECURSIVE OrderByDateAsc(_)
OrderByDateAsc(S) ==
    IF S = {} THEN {<<>>}
    ELSE UNION {{<<r>> \o s : s \in OrderByDateAsc(S \ {r})} :
                   r \in {x \in S : \A y \in S :
                              x.participation_date <= y.participation_date}}

\* LIMIT n
Limit(s, n) == SubSeq(s, 1, IF Len(s) <= n THEN Len(s) ELSE n)

\* WHERE whatsapp_number = ?
BySender(rows, whatsapp_number) ==
    {r \in rows : r.whatsapp_number = whatsapp_number}

\* The results get_user_history(whatsapp_number) may return.
get_user_history(rows, whatsapp_number) ==
    OrderByDateDesc(BySender(rows, whatsapp_number))

\* LIMIT 10 of get_last_10_records.
LastN == 10

\* As get_last_10_records, with ORDER BY participation_date ASC.
get_first_10_records(rows) == {Limit(s, LastN) : s \in OrderByDateAsc(rows)}

\* The results get_last_10_records() may return.
get_last_10_records(rows) == {Limit(s, LastN) : s \in OrderByDateDesc(rows)}

\* The results of delete_last_user_record's SELECT ... LIMIT 1.
SelectLast(rows, whatsapp_number) ==
    {Limit(s, 1) : s \in OrderByDateDesc(BySender(rows, whatsapp_number))}

\* DELETE FROM participations WHERE whatsapp_number = (the sender of row id).
DeleteBySenderOf(rows, id) ==
    {r \in rows : \A q \in rows : q.id = id => r.whatsapp_number # q.whatsapp_number}

\* DELETE FROM participations WHERE id = ?
DeleteById(rows, id) == {r \in rows : r.id # id}

\* "SELECT * FROM participations": the table in rowid order.
RECURSIVE RowsById(_)
RowsById(S) ==
    IF S = {} THEN <<>>
    ELSE LET first == CHOOSE r \in S : \A q \in S : r.id <= q.id
         IN  <<first>> \o RowsById(S \ {first})

\* ------------------------------------------------------------- formatting

\* The adapter stores datetime.now() as isoformat(" "), which leaves out the
\* fraction when microsecond = 0; strptime(..., '%Y-%m-%d %H:%M:%S.%f') then
\* raises ValueError.
Parses(participation_date) == participation_date % TicksPerMinute # 0

\* strftime('%d/%m/%Y %H:%M'): the minute of the timestamp.
StrfMinute(participation_date) == participation_date \div TicksPerMinute

\* strftime('%d/%m/%Y'): the day of the timestamp.
StrfDay(participation_date) == participation_date \div (TicksPerMinute * 1440)

\* title_info of a reply line: empty for a NULL and for an empty title.
TitleInfo(video_title) ==
    IF video_title # None /\ video_title # <<>> THEN video_title ELSE <<>>

\* The reply of '/meu historico' for the rows the query returned.
HistoryReply(profile_name, records) ==
    <<"history", profile_name, Len(records),
      [i \in 1..Len(records) |->
          <<StrfDay(records[i].participation_date),
            TitleInfo(records[i].video_title)>>]>>

\* The reply of '/ultimos registros' for the rows the query returned.
LastReply(records) ==
    <<"last10",
      [i \in 1..Len(records) |->
          <<records[i].profile_name,
            StrfMinute(records[i].participation_date),
            TitleInfo(records[i].video_title)>>]>>

\* ------------------------------------------------------ the report summary

\* The profile names of the model in the order groupby sorts its keys.
KeyOrder == <<"Ana", ADMIN_PHONE_NUMBER, MEMBER_PHONE_NUMBER>>

\* The stored timestamps are not all of one format (with and without the
\* fraction): pd.to_datetime takes the format of the first and, from pandas 2
\* on, raises ValueError at one of another format; older versions parse each.
MixedFormats(rows) ==
    \E i, j \in 1..Len(rows) :
        Parses(rows[i].participation_date) # Parses(rows[j].participation_date)

\* df['participation_date'] = pd.to_datetime(...).dt.strftime('%d/%m/%Y %H:%M')
FormatDates(df) ==
    [i \in 1..Len(df) |->
        [df[i] EXCEPT !.participation_date = StrfMinute(@)]]

\* The rows of one group, the last of df first.
GroupRowsReversed(df, key) ==
    LET g == SelectSeq(df, LAMBDA r : r.profile_name = key)
    IN  [i \in 1..Len(g) |-> g[Len(g) + 1 - i]]

\* The rows of one group, in the order of df.
GroupRows(df, key) == SelectSeq(df, LAMBDA r : r.profile_name = key)

\* total_participations = ('id', 'count') counted on column video_title.
CountVideos(g) == Len(SelectSeq(g, LAMBDA r : r.video_title # None))

\* total_participations = ('id', 'count'): the rows of the group (id is never NULL).
CountIds(g) == Len(g)

\* df.groupby('profile_name').agg(...).reset_index()
GroupBy(df) ==
    LET keys == SelectSeq(KeyOrder,
                          LAMBDA k : \E i \in 1..Len(df) : df[i].profile_name = k)
        Row(k) ==
            LET g == GroupRows(df, k)
                v == SelectSeq(g, LAMBDA r : r.video_title # None)
            IN  [profile_name         |-> k,
                 total_participations |-> CountIds(g),
                 \* the texts that ' | '.join puts together, in its order
                 dates  |-> [i \in 1..Len(g) |-> g[i].participation_date],
                 videos |-> [i \in 1..Len(v) |-> v[i].video_title]]
    IN  [i \in 1..Len(keys) |-> Row(keys[i])]

\* ------------------------------------------------------------------ steps

\* Process p moves to newpc with local variables newloc.
Go(p, newpc, newloc) ==
    /\ pc' = [pc EXCEPT ![p] = newpc]
    /\ loc' = [loc EXCEPT ![p] = newloc]

\* As Go, for a step of p that changed the table: a process between the SELECT
\* and the DELETE of delete_last_user_record is no longer alone.
GoMutating(p, newpc, newloc) ==
    /\ pc' = [pc EXCEPT ![p] = newpc]
    /\ loc' = [q \in Procs |->
                 IF q = p THEN newloc
                 ELSE IF pc[q] = "undo_delete" THEN [loc[q] EXCEPT !.alone = FALSE]
                 ELSE loc[q]]

\* INSERTs done or under way.
Inserts ==
    Cardinality(issued) + Cardinality({p \in Procs : pc[p] \in {"add_now", "add_insert"}})

\* Where whatsapp_webhook goes after choosing its branch.
EntryPoint(cmd) ==
    CASE cmd = "record"   -> "add_now"
      [] cmd = "history"  -> "history"
      [] cmd = "report"   -> "rep_read"
      [] cmd = "last10"   -> "last10"
      [] cmd = "fix_self" -> "undo_select"
      [] OTHER            -> "reply"

\* whatsapp_webhook up to the branch it takes, for a request drawn from senders,
\* params and bodies; a 'record' request is taken while fewer than cap INSERTs
\* were made.
Receive(p, senders, params, bodies, cap) ==
    /\ p \in Workers
    /\ pc[p] = "idle"
    /\ \E from_number \in senders, param \in params, body \in bodies :
         LET cmd == Branch(from_number, body)
             l0  == [Blank EXCEPT !.from_number = from_number,
                                  !.profile_name = ProfileName(from_number, param),
                                  !.incoming_msg = Strip(body),
                                  !.cmd = cmd]
         IN  /\ cmd = "record" => Inserts < cap
             /\ Go(p, EntryPoint(cmd),
                   CASE cmd = "record" -> [l0 EXCEPT !.video_title = VideoTitle(body)]
                     [] cmd = "report" -> [l0 EXCEPT !.on_demand = TRUE]
                     [] cmd = "help"   -> [l0 EXCEPT !.response_msg = <<"help">>,
                                                     !.status = 200]
                     [] cmd \in {"none", "fix_other"} -> [l0 EXCEPT !.status = 204]
                     [] OTHER -> l0)
    /\ UNCHANGED <<schema, init_calls, ledger, sqlite_sequence, now, files, served, lastInserted, issued>>

\* init_db(), called when the module is loaded: by the first start of the
\* application and by every later start of a server process.
init_db ==
    /\ Len(init_calls) < MaxInitCalls
    /\ LET db == CreateTableIfNotExists(schema, ledger, sqlite_sequence)
       IN  /\ ledger' = db.rows
           /\ sqlite_sequence' = db.seq
    /\ schema' = TRUE
    /\ init_calls' = Append(init_calls, [exists |-> schema,
                                          rows |-> Cardinality(ledger),
                                          seq |-> sqlite_sequence])
    /\ UNCHANGED <<now, pc, loc, files, served, lastInserted, issued>>

\* add_participation: the arguments of the INSERT are evaluated (datetime.now()).
AddNow(p) ==
    /\ pc[p] = "add_now"
    /\ Go(p, "add_insert", [loc[p] EXCEPT !.ts = now])
    /\ UNCHANGED <<schema, init_calls, ledger, sqlite_sequence, now, files, served, lastInserted, issued>>

\* As AddInsert, with INSERT OR REPLACE on a table keyed by whatsapp_number: a
\* row of the same sender is overwritten in place.
AddInsertOrReplace(p) ==
    /\ pc[p] = "add_insert"
    /\ LET mine == BySender(ledger, loc[p].from_number)
           id   == IF mine = {} THEN NextRowId(ledger, sqlite_sequence)
                   ELSE SetMax({r.id : r \in mine})
       IN  /\ ledger' = {r \in ledger : r.id # id} \cup
                  {[id |-> id,
                    whatsapp_number |-> loc[p].from_number,
                    profile_name |-> loc[p].profile_name,
                    participation_date |-> loc[p].ts,
                    video_title |-> loc[p].video_title]}
           /\ sqlite_sequence' = Max(sqlite_sequence, id)
           /\ lastInserted' = id
           /\ issued' = issued \cup {id}
    /\ GoMutating(p, "reply",
                  [loc[p] EXCEPT !.commits = 1,
                                 !.rowcount = 1,
                                 !.response_msg = <<"registered", loc[p].profile_name>>,
                                 !.status = 200])
    /\ UNCHANGED <<schema, init_calls, now, files, served>>

\* add_participation: INSERT and commit; then the reply text is built.
AddInsert(p) ==
    /\ pc[p] = "add_insert"
    /\ LET id == NextRowId(ledger, sqlite_sequence)
       IN  /\ ledger' = ledger \cup
                  {[id |-> id,
                    whatsapp_number |-> loc[p].from_number,
                    profile_name |-> loc[p].profile_name,
                    participation_date |-> loc[p].ts,
                    video_title |-> loc[p].video_title]}
           /\ sqlite_sequence' = Max(sqlite_sequence, id)
           /\ lastInserted' = id
           /\ issued' = issued \cup {id}
    /\ GoMutating(p, "reply",
                  [loc[p] EXCEPT !.commits = 1,
                                 !.rowcount = 1,
                                 !.response_msg = <<"registered", loc[p].profile_name>>,
                                 !.status = 200])
    /\ UNCHANGED <<schema, init_calls, now, files, served>>

\* The '/meu historico' branch: get_user_history and the reply built from it.
History(p) ==
    /\ pc[p] = "history"
    /\ \E records \in get_user_history(ledger, loc[p].from_number) :
         Go(p, "reply",
            IF records = <<>>
            THEN [loc[p] EXCEPT !.response_msg = <<"no_history">>, !.status = 200]
            ELSE IF \E i \in 1..Len(records) : ~Parses(records[i].participation_date)
            THEN [loc[p] EXCEPT !.records = records, !.status = 500]
            ELSE [loc[p] EXCEPT !.records = records,
                                !.response_msg = HistoryReply(loc[p].profile_name, records),
                                !.status = 200])
    /\ UNCHANGED <<schema, init_calls, ledger, sqlite_sequence, now, files, served, lastInserted, issued>>

\* The '/ultimos registros' branch: get_last_10_records and the reply.
Last10(p) ==
    /\ pc[p] = "last10"
    /\ \E records \in get_last_10_records(ledger) :
         Go(p, "reply",
            IF records = <<>>
            THEN [loc[p] EXCEPT !.response_msg = <<"none_found">>, !.status = 200]
            ELSE IF \E i \in 1..Len(records) : ~Parses(records[i].participation_date)
            THEN [loc[p] EXCEPT !.records = records, !.status = 500]
            ELSE [loc[p] EXCEPT !.records = records,
                                !.response_msg = LastReply(records),
                                !.status = 200])
    /\ UNCHANGED <<schema, init_calls, ledger, sqlite_sequence, now, files, served, lastInserted, issued>>

\* delete_last_user_record: the SELECT ... LIMIT 1.
UndoSelect(p) ==
    /\ pc[p] = "undo_select"
    /\ \E last_record \in SelectLast(ledger, loc[p].from_number) :
         IF last_record = <<>>
         THEN Go(p, "reply", [loc[p] EXCEPT !.response_msg = <<"nothing_to_fix">>,
                                            !.status = 200])
         ELSE Go(p, "undo_delete", [loc[p] EXCEPT !.last_record = last_record[1].id,
                                                  !.alone = TRUE])
    /\ UNCHANGED <<schema, init_calls, ledger, sqlite_sequence, now, files, served, lastInserted, issued>>

\* delete_last_user_record: the DELETE by id, the commit, and return True.
UndoDelete(p) ==
    /\ pc[p] = "undo_delete"
    /\ ledger' = DeleteById(ledger, loc[p].last_record)
    /\ lastInserted' = IF ledger' # ledger THEN 0 ELSE lastInserted
    /\ LET l1 == [loc[p] EXCEPT !.commits = 1,
                                !.rowcount = Cardinality(ledger) - Cardinality(ledger'),
                                !.response_msg = <<"removed">>,
                                !.status = 200]
       IN  IF ledger' # ledger THEN GoMutating(p, "reply", l1) ELSE Go(p, "reply", l1)
    /\ UNCHANGED <<schema, init_calls, sqlite_sequence, now, files, served, issued>>

\* whatsapp_webhook returns: the TwiML reply, or '' with 204, or an error page.
Reply(p) ==
    /\ pc[p] = "reply"
    /\ Go(p, "idle", Blank)
    /\ UNCHANGED <<schema, init_calls, ledger, sqlite_sequence, now, files, served, lastInserted, issued>>

\* --------------------------------------------------------- the report run

\* The scheduler's cron job: generate_and_send_report() with on_demand=False.
\* (The job's default max_instances=1 keeps scheduled runs from overlapping
\* each other.)
SchedFire ==
    /\ pc[Sched] = "idle"
    /\ Go(Sched, "rep_read", [Blank EXCEPT !.cmd = "cron"])
    /\ UNCHANGED <<schema, init_calls, ledger, sqlite_sequence, now, files, served, lastInserted, issued>>

\* generate_and_send_report returns or raises: the webhook answers 204 (or the
\* error page), the scheduler's job thread is free again.
Finish(p, l, status) ==
    IF p = Sched
    THEN Go(p, "idle", Blank)
    ELSE Go(p, "reply", [l EXCEPT !.status = status])

\* As Delivered, with a failed delivery undoing the last INSERT.
DeliveredOrRolledBack(p, what, ok) ==
    /\ Finish(p, [loc[p] EXCEPT !.sent = Append(@, what)], IF ok THEN 204 ELSE 500)
    /\ ledger' = IF ok THEN ledger ELSE {r \in ledger : r.id # lastInserted}

\* client.messages.create(body=what) was called: the message is delivered (ok)
\* or the call raises and ends the invocation. The table is not touched.
Delivered(p, what, ok) ==
    /\ Finish(p, [loc[p] EXCEPT !.sent = Append(@, what)], IF ok THEN 204 ELSE 500)
    /\ ledger' = ledger

\* As RepRead, with the "no records" text sent by a scheduled run too.
RepReadAlwaysNotifies(p) ==
    /\ pc[p] = "rep_read"
    /\ LET rows == IF schema THEN RowsById(ledger) ELSE <<>>
           df   == FormatDates(rows)
       IN  IF rows = <<>>
           THEN Go(p, "rep_notify_empty", loc[p])
           ELSE \/ Go(p, "csv_open", [loc[p] EXCEPT !.df = df,
                                                    !.report_summary = GroupBy(df)])
                \/ MixedFormats(rows) /\ Finish(p, loc[p], 500)
    /\ UNCHANGED <<schema, init_calls, ledger, sqlite_sequence, now, files, served, lastInserted, issued>>

\* pd.read_sql_query("SELECT * FROM participations") (an empty DataFrame when
\* the table does not exist), the df.empty test, the date conversion (which
\* may raise) and the groupby.
RepRead(p) ==
    /\ pc[p] = "rep_read"
    /\ LET rows == IF schema THEN RowsById(ledger) ELSE <<>>
           df   == FormatDates(rows)
       IN  IF rows = <<>>
           THEN IF loc[p].on_demand
                THEN Go(p, "rep_notify_empty", loc[p])
                ELSE Finish(p, loc[p], 204)
           ELSE \/ Go(p, "csv_open", [loc[p] EXCEPT !.df = df,
                                                    !.report_summary = GroupBy(df)])
                \/ MixedFormats(rows) /\ Finish(p, loc[p], 500)
    /\ UNCHANGED <<schema, init_calls, ledger, sqlite_sequence, now, files, served, lastInserted, issued>>

\* client.messages.create of the "no records" text.
RepNotifyEmpty(p) ==
    /\ pc[p] = "rep_notify_empty"
    /\ \E ok \in BOOLEAN : Delivered(p, "no_records", ok)
    /\ UNCHANGED <<schema, init_calls, sqlite_sequence, now, files, served, lastInserted, issued>>

\* to_csv / to_excel open the file for writing: it is truncated.
OpenFile(p, f) ==
    files' = [files EXCEPT ![f] = [exists |-> TRUE,
                                   writers |-> @.writers \cup {p},
                                   data |-> <<>>]]

\* to_csv / to_excel have written the summary and close the file.
CloseFile(p, f) ==
    files' = [files EXCEPT ![f] = [exists |-> TRUE,
                                   writers |-> @.writers \ {p},
                                   data |-> loc[p].report_summary]]

CsvOpen(p) ==
    /\ pc[p] = "csv_open"
    /\ OpenFile(p, CSV)
    /\ Go(p, "csv_close", [loc[p] EXCEPT !.wrote = @ \cup {CSV}])
    /\ UNCHANGED <<schema, init_calls, ledger, sqlite_sequence, now, served, lastInserted, issued>>

CsvClose(p) ==
    /\ pc[p] = "csv_close"
    /\ CloseFile(p, CSV)
    /\ Go(p, "xlsx_open", loc[p])
    /\ UNCHANGED <<schema, init_calls, ledger, sqlite_sequence, now, served, lastInserted, issued>>

XlsxOpen(p) ==
    /\ pc[p] = "xlsx_open"
    /\ OpenFile(p, XLSX)
    /\ Go(p, "xlsx_close", [loc[p] EXCEPT !.wrote = @ \cup {XLSX}])
    /\ UNCHANGED <<schema, init_calls, ledger, sqlite_sequence, now, served, lastInserted, issued>>

XlsxClose(p) ==
    /\ pc[p] = "xlsx_close"
    /\ CloseFile(p, XLSX)
    /\ Go(p, "rep_notify", loc[p])
    /\ UNCHANGED <<schema, init_calls, ledger, sqlite_sequence, now, served, lastInserted, issued>>

\* client.messages.create of the summary message.
RepNotify(p) ==
    /\ pc[p] = "rep_notify"
    /\ \E ok \in BOOLEAN : Delivered(p, "summary", ok)
    /\ UNCHANGED <<schema, init_calls, sqlite_sequence, now, files, served, lastInserted, issued>>

\* serve_report(filename): send_from_directory reads the file as it is now.
Serve(f) ==
    /\ served' = <<f, IF ~files[f].exists THEN "404"
                      ELSE IF files[f].writers # {} THEN "partial"
                      ELSE "complete">>
    /\ UNCHANGED <<schema, init_calls, ledger, sqlite_sequence, now, pc, loc, files, lastInserted, issued>>

\* Time passes.
Tick ==
    /\ now < MaxTime
    /\ now' = now + 1
    /\ UNCHANGED <<schema, init_calls, ledger, sqlite_sequence, pc, loc, files, served, lastInserted, issued>>

\* The processes that are running.
Running == {p \in Procs : pc[p] # "idle"}

\* The steps of a request that changes the table.
LedgerStep(p) ==
    \/ AddNow(p)
    \/ AddInsert(p)
    \/ UndoSelect(p)
    \/ UndoDelete(p)
    \/ Reply(p)

\* The steps of a request that queries the table.
QueryStep(p) ==
    \/ History(p)
    \/ Last10(p)

\* The steps of a report run.
ReportStep(p) ==
    \/ RepRead(p)
    \/ RepNotifyEmpty(p)
    \/ CsvOpen(p)
    \/ CsvClose(p)
    \/ XlsxOpen(p)
    \/ XlsxClose(p)
    \/ RepNotify(p)

\* ------------------------------------------------------- specifications

\* One request body per branch of the webhook, and two 'record' bodies.
CoreBodies ==
    {BodyGravei, BodyParticipeiClipe, BodyHistorico, BodyAjuda, BodyRelatorio,
     BodyUltimos, BodyCorrigir, BodyCorrigirOutro, BodyOi}

\* The bodies that change the table.
LedgerBodies == {BodyGravei, BodyCorrigir}

\* Concurrent webhook requests that change the table.
Next ==
    \/ \E p \in Workers : Receive(p, Senders, {NoParam}, LedgerBodies, MaxId)
    \/ \E p \in Workers : LedgerStep(p)
    \/ Tick

Spec == Init /\ [][Next]_vars

\* One request or report run at a time: every branch, every sender and name.
NextSerial ==
    \/ Running = {} /\ Receive("w1", Senders, ProfileParams, CoreBodies, MaxId)
    \/ Running = {} /\ SchedFire
    \/ LedgerStep("w1")
    \/ QueryStep("w1")
    \/ \E p \in Procs : ReportStep(p)
    \/ Tick

SpecSerial == Init /\ [][NextSerial]_vars

\* The administrator's requests on one handler, the cron job and the file
\* server, concurrently.
NextReport ==
    \/ Receive("w1", {ADMIN_PHONE_NUMBER}, {NoParam},
               {BodyGravei, BodyCorrigir, BodyRelatorio}, MaxId)
    \/ SchedFire
    \/ LedgerStep("w1")
    \/ \E p \in Procs : ReportStep(p)
    \/ \E f \in FileNames : Serve(f)

SpecReport == Init /\ [][NextReport]_vars

\* Rows of every sender, name and title, and report runs over them, one
\* request or run at a time.
NextSummary ==
    \/ Running = {} /\ Receive("w1", Senders, ProfileParams,
                                {BodyGravei, BodyParticipeiClipe, BodyRelatorio}, MaxId)
    \/ Running = {} /\ SchedFire
    \/ AddNow("w1")
    \/ AddInsert("w1")
    \/ Reply("w1")
    \/ \E p \in Procs : ReportStep(p)

SpecSummary == Init /\ [][NextSummary]_vars

\* One request at a time, every request body.
NextParse ==
    \/ Running = {} /\ Receive("w1", Senders, {NoParam}, Bodies, MaxParseId)
    \/ LedgerStep("w1")
    \/ QueryStep("w1")
    \/ ReportStep("w1")

SpecParse == Init /\ [][NextParse]_vars

\* One handler and the cron job, concurrently: every branch of the webhook from
\* both senders, and scheduled runs.
NextFrame ==
    \/ Receive("w1", Senders, {NoParam}, CoreBodies \ {BodyParticipeiClipe}, MaxId)
    \/ SchedFire
    \/ LedgerStep("w1")
    \/ QueryStep("w1")
    \/ \E p \in Procs : ReportStep(p)

SpecFrame == Init /\ [][NextFrame]_vars

\* The table after n 'record' requests served one after the other, alternately
\* of the administrator and of the other sender, d of them per clock reading.
FilledLedger(n, d) ==
    {[id |-> i,
      whatsapp_number |-> IF i % 2 = 1 THEN ADMIN_PHONE_NUMBER ELSE MEMBER_PHONE_NUMBER,
      profile_name |-> IF i % 2 = 1 THEN ADMIN_PHONE_NUMBER ELSE MEMBER_PHONE_NUMBER,
      participation_date |-> (i - 1) \div d,
      video_title |-> None] : i \in 1..n}

\* The program after such requests, with no request under way.
InitRecent ==
    /\ \E n \in 0..MaxRows, d \in 1..MaxTie :
          /\ ledger = FilledLedger(n, d)
          /\ sqlite_sequence = n
          /\ now = (IF n = 0 THEN 0 ELSE (n - 1) \div d)
          /\ lastInserted = n
          /\ issued = 1..n
    /\ pc = [p \in Procs |-> "idle"]
    /\ loc = [p \in Procs |-> Blank]
    /\ files = [f \in FileNames |-> NoFileState]
    /\ served = <<"", "nothing">>
    /\ schema = TRUE
    /\ init_calls = <<FirstCall>>

\* '/ultimos registros' on tables of up to MaxRows rows.
NextRecent ==
    \/ Receive("w1", {ADMIN_PHONE_NUMBER}, {NoParam}, {BodyUltimos}, MaxRows)
    \/ Last10("w1")
    \/ Reply("w1")

SpecRecent == InitRecent /\ [][NextRecent]_vars

\* The titles of the rows SpecGroups starts from: none, empty, "x", "y".
GroupTitles == {None, <<>>, <<"x">>, <<"y">>}

\* The tables after n 'record' requests served one per clock reading, each of
\* the administrator under the name "Ana" or of the other sender under no
\* name, with any of the titles.
GroupLedgers(n) ==
    {{[id |-> i,
       whatsapp_number |-> who[i],
       profile_name |-> ProfileName(who[i], IF who[i] = ADMIN_PHONE_NUMBER
                                            THEN "Ana" ELSE NoParam),
       participation_date |-> i,
       video_title |-> title[i]] : i \in 1..n} :
        who \in [1..n -> Senders], title \in [1..n -> GroupTitles]}

\* The program after such requests, with no request under way.
InitGroups ==
    /\ \E n \in 0..MaxGroupRows :
          /\ ledger \in GroupLedgers(n)
          /\ sqlite_sequence = n
          /\ now = n
          /\ lastInserted = n
          /\ issued = 1..n
    /\ pc = [p \in Procs |-> "idle"]
    /\ loc = [p \in Procs |-> Blank]
    /\ files = [f \in FileNames |-> NoFileState]
    /\ served = <<"", "nothing">>
    /\ schema = TRUE
    /\ init_calls = <<FirstCall>>

\* Report runs, on demand and scheduled, one at a time, on such tables.
NextGroups ==
    \/ Running = {} /\ Receive("w1", {ADMIN_PHONE_NUMBER}, {NoParam},
                                {BodyRelatorio}, MaxGroupRows)
    \/ Running = {} /\ SchedFire
    \/ \E p \in Procs : ReportStep(p)
    \/ Reply("w1")

SpecGroups == InitGroups /\ [][NextGroups]_vars

\* The program before its first start: no database file.
InitBoot ==
    /\ ledger = {}
    /\ sqlite_sequence = 0
    /\ now = 0
    /\ pc = [p \in Procs |-> "idle"]
    /\ loc = [p \in Procs |-> Blank]
    /\ files = [f \in FileNames |-> NoFileState]
    /\ served = <<"", "nothing">>
    /\ lastInserted = 0
    /\ issued = {}
    /\ schema = FALSE
    /\ init_calls = <<>>

\* Starts of server processes while the administrator's requests are served.
\* The webhook serves once the module is loaded, so after init_db; the
\* scheduler is started before init_db (line 169), so its job may run first.
NextBoot ==
    \/ init_db
    \/ schema /\ Receive("w1", {ADMIN_PHONE_NUMBER}, {NoParam}, LedgerBodies, MaxId)
    \/ LedgerStep("w1")
    \/ SchedFire
    \/ RepRead(Sched)
    \/ CsvOpen(Sched)
    \/ CsvClose(Sched)
    \/ XlsxOpen(Sched)
    \/ XlsxClose(Sched)
    \/ RepNotify(Sched)

SpecBoot == InitBoot /\ [][NextBoot]_vars

\* ------------------------------------------------------------------ claims

\* The rows of sender n.
RowsOf(n) == BySender(ledger, n)

\* C1: every call of delete_last_user_record that returns True has removed a
\* row, whatever the interleaving: the calls that return True are as many as
\* the rows removed (a call removes at most one row, a call that returns
\* False removes none). With one row and two concurrent undo requests, one
\* of them does not answer "removed".
C1_TrueReturnsCountRemovals ==
    \A p \in Workers :
        (pc[p] = "reply" /\ loc[p].response_msg = <<"removed">>)
            => loc[p].rowcount = 1

\* C2: without a change of the table by another process between its SELECT and
\* its DELETE, delete_last_user_record(S) with N >= 1 rows of S returns True,
\* leaves N - 1 rows of S and the rows of every other sender as they were;
\* with no row of S it returns False and the table is unchanged.
C2_SequentialUndo ==
    [][\A p \in Workers :
         LET S == loc[p].from_number
         IN  /\ (pc[p] = "undo_select" /\ pc'[p] # "undo_select") =>
                  /\ ledger' = ledger
                  /\ IF RowsOf(S) = {}
                     THEN /\ pc'[p] = "reply"
                          /\ loc'[p].response_msg = <<"nothing_to_fix">>
                     ELSE pc'[p] = "undo_delete"
             /\ (pc[p] = "undo_delete" /\ pc'[p] # "undo_delete" /\ loc[p].alone) =>
                  /\ RowsOf(S) # {}
                  /\ BySender(ledger', S) \subseteq RowsOf(S)
                  /\ Cardinality(BySender(ledger', S)) = Cardinality(RowsOf(S)) - 1
                  /\ ledger' \ BySender(ledger', S) = ledger \ RowsOf(S)
                  /\ pc'[p] = "reply"
                  /\ loc'[p].response_msg = <<"removed">>
      ]_vars

\* C2's case: an undisturbed undo has removed a row of the administrator and
\* the other sender's row is still there.
C2_Witness ==
    \E p \in Workers :
        /\ pc[p] = "reply"
        /\ loc[p].response_msg = <<"removed">>
        /\ loc[p].alone
        /\ loc[p].rowcount = 1
        /\ RowsOf(MEMBER_PHONE_NUMBER) # {}

\* What get_user_history returns of a row: participation_date, video_title.
HistoryRow(r) == <<r.participation_date, r.video_title>>

\* C3: when the last change of the table was the INSERT of a row of sender S,
\* get_user_history(S) returns that row first, also when its timestamp equals
\* that of another row of S.
C3_AppendedRowComesFirst ==
    [][\A p \in Workers :
         (/\ pc[p] = "history"
          /\ pc'[p] = "reply"
          /\ \E r \in ledger : r.id = lastInserted /\ r.whatsapp_number = loc[p].from_number)
         => \E r \in ledger :
                /\ r.id = lastInserted
                /\ HistoryRow(loc'[p].records[1]) = HistoryRow(r)
      ]_vars

\* C4: what get_user_history and get_last_10_records return is ordered by
\* timestamp descending, and rows of equal timestamp by id descending.
C4_OrderedWithTieBreak ==
    \A p \in Workers :
        (pc[p] = "reply" /\ loc[p].cmd \in {"history", "last10"}) =>
            \A i, j \in 1..Len(loc[p].records) :
                i < j =>
                    \/ loc[p].records[i].participation_date > loc[p].records[j].participation_date
                    \/ /\ loc[p].records[i].participation_date = loc[p].records[j].participation_date
                       /\ loc[p].records[i].id > loc[p].records[j].id

\* The processes between the start of writing the CSV file and the end of
\* writing the XLSX file.
Exporting == {p \in Procs : pc[p] \in {"csv_close", "xlsx_open", "xlsx_close"}}

\* C5: report runs are serialized on the export files: no two runs are both
\* between the start of the CSV write and the end of the XLSX write, and
\* serve_report never sends a file that a run is writing.
C5_ReportRunsSerialized ==
    /\ Cardinality(Exporting) <= 1
    /\ served[2] # "partial"

RECURSIVE SumCounts(_)
SumCounts(summary) ==
    IF summary = <<>> THEN 0
    ELSE Head(summary).total_participations + SumCounts(Tail(summary))

\* C6: the groups of a report summary partition the rows read by
\* profile_name: every row has exactly one group, the one keyed by its
\* profile_name, each group counts the rows of its key, and the counts add up
\* to the number of rows read.
C6_GroupsPartitionRows ==
    \A p \in Procs :
        LET df == loc[p].df
            summary == loc[p].report_summary
        IN  df # <<>> =>
              /\ \A i \in 1..Len(df) :
                   Cardinality({g \in 1..Len(summary) :
                                  summary[g].profile_name = df[i].profile_name}) = 1
              /\ \A g \in 1..Len(summary) :
                   /\ summary[g].total_participations =
                        Cardinality({i \in 1..Len(df) :
                                       df[i].profile_name = summary[g].profile_name})
                   /\ summary[g].total_participations >= 1
              /\ SumCounts(summary) = Len(df)

\* C6's case: a run read two rows of different senders under one profile name
\* and put them in one group.
C6_Witness ==
    \E p \in Procs :
        /\ Len(loc[p].df) = 2
        /\ loc[p].df[1].whatsapp_number # loc[p].df[2].whatsapp_number
        /\ Len(loc[p].report_summary) = 1
        /\ loc[p].report_summary[1].total_participations = 2

\* C7: a run that reads an empty table writes no export file; on demand it
\* hands exactly one "no records" text to the notifier and ends, scheduled it
\* ends at once, with no notification.
C7_EmptyLedgerRun ==
    [][\A p \in Procs :
         /\ (pc[p] = "rep_read" /\ pc'[p] # "rep_read" /\ ledger = {}) =>
              /\ files' = files
              /\ loc'[p].sent = <<>>
              /\ loc'[p].wrote = {}
              /\ IF loc[p].on_demand
                 THEN pc'[p] = "rep_notify_empty"
                 ELSE pc'[p] = "idle"
         /\ (pc[p] = "rep_notify_empty" /\ pc'[p] # "rep_notify_empty") =>
              /\ files' = files
              /\ pc'[p] = "reply"
              /\ loc'[p].sent = <<"no_records">>
              /\ loc'[p].wrote = {}
      ]_vars

\* C7's case: an on-demand run on the empty table has ended with its one
\* notification delivered.
C7_Witness ==
    \E p \in Workers :
        /\ pc[p] = "reply"
        /\ loc[p].cmd = "report"
        /\ loc[p].df = <<>>
        /\ loc[p].status = 204
        /\ loc[p].sent = <<"no_records">>
        /\ ledger = {}

\* A request of sender from_number with text msg that is no command for that
\* sender.
NotACommand(from_number, msg) ==
    LET m == Lower(msg)
    IN  /\ ~StartsWith(m, KW_participei)
        /\ ~StartsWith(m, KW_gravei)
        /\ ~StartsWith(m, KW_participar)
        /\ m # KW_meu_historico
        /\ m # KW_ajuda
        /\ \/ from_number # ADMIN_PHONE_NUMBER
           \/ /\ m # KW_relatorio_agora
              /\ m # KW_ultimos_registros
              /\ ~StartsWith(m, KW_corrigir_ultimo)

\* C8: a request that is no command for its sender is answered with the empty
\* 204 response at once: no row, no file and no notification comes of it.
C8_UnrecognizedIsSilent ==
    [][\A p \in Workers :
         (/\ pc[p] = "idle"
          /\ pc'[p] # "idle"
          /\ NotACommand(loc'[p].from_number, loc'[p].incoming_msg))
         => /\ pc'[p] = "reply"
            /\ loc'[p].status = 204
            /\ loc'[p].response_msg = <<>>
            /\ loc'[p].sent = <<>>
            /\ loc'[p].wrote = {}
            /\ ledger' = ledger
            /\ files' = files
      ]_vars

\* C8's case: '/relatorio agora' of a sender who is not the administrator is
\* about to be answered, with rows in the table.
C8_Witness ==
    \E p \in Workers :
        /\ pc[p] = "reply"
        /\ loc[p].from_number = MEMBER_PHONE_NUMBER
        /\ Lower(loc[p].incoming_msg) = KW_relatorio_agora
        /\ loc[p].status = 204
        /\ ledger # {}

\* C9: the ids of the rows are unique, and every INSERT gets an id greater than
\* every id given before, so the id of a deleted row is not given again.
C9_IdsNeverReused ==
    /\ [](\A r, q \in ledger : r.id = q.id => r = q)
    /\ [][\A r \in ledger' \ ledger : \A i \in issued : r.id > i]_vars

\* C9's case: the row with the highest id was deleted and another row inserted.
C9_Witness ==
    /\ issued = {1, 2}
    /\ {r.id : r \in ledger} = {2}

\* C10: a reply that confirms an INSERT or a DELETE is built after the commit,
\* and a call of client.messages.create, failed or not, leaves the table as it
\* is.
C10_CommitBeforeReply ==
    /\ [](\A p \in Workers :
            (/\ loc[p].response_msg # <<>>
             /\ loc[p].response_msg[1] \in {"registered", "removed"})
            => loc[p].commits = 1)
    /\ [][\A p \in Procs :
            (/\ pc[p] \in {"rep_notify", "rep_notify_empty"}
             /\ pc'[p] # pc[p])
            => ledger' = ledger]_vars

\* C10's case: a notification failed while the table held a committed row.
C10_Witness ==
    \E p \in Workers :
        /\ pc[p] = "reply"
        /\ loc[p].status = 500
        /\ loc[p].sent = <<"summary">>
        /\ ledger # {}

\* The command of the request or run that process p is taking a step of.
CmdOfStep(p) == IF pc[p] = "idle" THEN loc'[p].cmd ELSE loc[p].cmd

\* C11: a row enters the table only by the INSERT of a 'record' request, one
\* row per such request; a row leaves it only by the DELETE of an undo request,
\* at most one per such request; a row in the table keeps its fields; the
\* steps of '/meu historico', '/ajuda', '/ultimos registros', '/relatorio
\* agora' and of scheduled runs leave the table as it is.
C11_LedgerFrame ==
    [][/\ \A r \in ledger, q \in ledger' : r.id = q.id => r = q
       /\ ledger' # ledger =>
             \E p \in Workers :
                 \/ /\ pc[p] = "add_insert"
                    /\ pc'[p] = "reply"
                    /\ loc[p].cmd = "record"
                    /\ ledger \subseteq ledger'
                    /\ Cardinality(ledger' \ ledger) = 1
                 \/ /\ pc[p] = "undo_delete"
                    /\ pc'[p] = "reply"
                    /\ loc[p].cmd = "fix_self"
                    /\ ledger' \subseteq ledger
                    /\ Cardinality(ledger \ ledger') = 1
       /\ \A p \in Procs :
             pc'[p] # pc[p] =>
                 /\ CmdOfStep(p) \in {"history", "help", "last10", "report", "cron"}
                        => ledger' = ledger
                 /\ (pc'[p] = "reply" /\ CmdOfStep(p) = "record")
                        => Cardinality(ledger') = Cardinality(ledger) + 1
                 /\ CmdOfStep(p) = "fix_self"
                        => Cardinality(ledger') >= Cardinality(ledger) - 1
      ]_vars

\* C11's case: after two INSERTs and a DELETE, '/meu historico' has read the
\* row that is left.
C11_Witness ==
    /\ pc["w1"] = "reply"
    /\ loc["w1"].cmd = "history"
    /\ Len(loc["w1"].records) = 1
    /\ Cardinality(issued) = 2
    /\ Cardinality(ledger) = 1

\* The text m begins, lower-cased, with a record trigger.
IsRecordTrigger(m) ==
    \/ StartsWith(Lower(m), KW_participei)
    \/ StartsWith(Lower(m), KW_gravei)
    \/ StartsWith(Lower(m), KW_participar)

\* t is what follows the first ':' of m, without the spaces around it.
IsTrimmedTextAfterFirstColon(m, t) ==
    \E i \in 1..Len(m) :
        /\ m[i] = ":"
        /\ \A j \in 1..(i - 1) : m[j] # ":"
        /\ \E a, b \in 0..Len(m) :
              /\ i + a + Len(t) + b = Len(m)
              /\ \A j \in (i + 1)..(i + a) : m[j] = " "
              /\ \A j \in 1..Len(t) : m[i + a + j] = t[j]
              /\ \A j \in (i + a + Len(t) + 1)..Len(m) : m[j] = " "
              /\ t # <<>> => (t[1] # " " /\ t[Len(t)] # " ")

\* C12: a request whose text begins with a record trigger stores as
\* video_title the text after the first ':' of the text as sent (not
\* lower-cased), trimmed, or NULL when the text has no ':', and is answered
\* with the confirmation; "Participei: clipe final" stores "clipe final".
C12_LabelIsTextAfterFirstColon ==
    \A p \in Workers :
        (pc[p] = "reply" /\ IsRecordTrigger(loc[p].incoming_msg)) =>
            /\ loc[p].response_msg = <<"registered", loc[p].profile_name>>
            /\ loc[p].status = 200
            /\ \E r \in ledger :
                  /\ r.id = lastInserted
                  /\ r.whatsapp_number = loc[p].from_number
                  /\ IF Contains(loc[p].incoming_msg, ":")
                     THEN /\ r.video_title # None
                          /\ IsTrimmedTextAfterFirstColon(loc[p].incoming_msg, r.video_title)
                     ELSE r.video_title = None
                  /\ loc[p].incoming_msg = BodyParticipeiClipe =>
                        r.video_title = <<"c", "l", "i", "p", "e", " ", "f", "i", "n", "a", "l">>

\* C12's case: "Gravei: A:b " was stored with the title "A:b".
C12_Witness ==
    \E p \in Workers :
        /\ pc[p] = "reply"
        /\ loc[p].incoming_msg = Strip(BodyGraveiColons)
        /\ \E r \in ledger : r.video_title = <<"A", ":", "b">>

\* The local variables of the request that process p is taking a step of.
LocOfStep(p) == IF pc[p] = "idle" THEN loc'[p] ELSE loc[p]

\* C13: no step of a request of the administrator whose text begins with
\* '/corrigir ultimo' and has more than two tokens changes the table, and the
\* request never comes to the SELECT or the DELETE of delete_last_user_record.
C13_UndoWithArgumentDeletesNothing ==
    [][\A p \in Workers :
         (/\ pc'[p] # pc[p]
          /\ LocOfStep(p).from_number = ADMIN_PHONE_NUMBER
          /\ StartsWith(Lower(LocOfStep(p).incoming_msg), KW_corrigir_ultimo)
          /\ NumTokens(LocOfStep(p).incoming_msg) > 2)
         => /\ ledger' = ledger
            /\ pc'[p] \in {"reply", "idle"}
            /\ LocOfStep(p).commits = 0
      ]_vars

\* C13's case: '/corrigir ultimo u' of the administrator is about to be
\* answered, and the administrator's row is in the table.
C13_Witness ==
    \E p \in Workers :
        /\ pc[p] = "reply"
        /\ loc[p].from_number = ADMIN_PHONE_NUMBER
        /\ loc[p].incoming_msg = BodyCorrigirOutro
        /\ RowsOf(ADMIN_PHONE_NUMBER) # {}

\* C14: the webhook answers with the empty 204 response exactly when the
\* request is '/relatorio agora' of the administrator or no command; a
\* 'record', '/meu historico', '/ajuda', '/ultimos registros' request and
\* every request of the administrator that begins with '/corrigir ultimo' is
\* answered with a reply text that is not empty; no answer carries an empty
\* reply text. (A run whose call of the notifier raised is left aside.)
C14_NoContentOnlyForReportAndUnrecognized ==
    \A p \in Workers :
        pc[p] = "reply" =>
            /\ ~(loc[p].status = 500 /\ loc[p].sent # <<>>) =>
                  (loc[p].status = 204 <=> loc[p].cmd \in {"report", "none"})
            /\ loc[p].cmd \in {"record", "history", "help", "last10", "fix_self", "fix_other"} =>
                  /\ loc[p].status = 200
                  /\ loc[p].response_msg # <<>>
            /\ loc[p].status = 200 => loc[p].response_msg # <<>>

\* The rows of a query result.
Returned(records) == {records[i] : i \in 1..Len(records)}

\* C15: get_last_10_records returns min(10, rows in the table) different rows
\* of the table, whoever sent them, newest first, and every row it returns is
\* at least as new as every row it leaves out.
C15_LastTenAreTheNewest ==
    \A p \in Workers :
        (pc[p] = "reply" /\ loc[p].cmd = "last10") =>
            LET records == loc[p].records
            IN  /\ Len(records) = (IF Cardinality(ledger) <= 10
                                   THEN Cardinality(ledger) ELSE 10)
                /\ Returned(records) \subseteq ledger
                /\ Cardinality(Returned(records)) = Len(records)
                /\ \A r \in Returned(records), q \in ledger \ Returned(records) :
                      r.participation_date >= q.participation_date
                /\ \A i, j \in 1..Len(records) :
                      i < j => records[i].participation_date >= records[j].participation_date

\* C15's case: of twelve rows of two senders ten were returned, and a row left
\* out is as new as a row returned.
C15_Witness ==
    \E p \in Workers :
        /\ pc[p] = "reply"
        /\ loc[p].cmd = "last10"
        /\ Cardinality(ledger) = 12
        /\ Len(loc[p].records) = 10
        /\ {r.whatsapp_number : r \in Returned(loc[p].records)} = Senders
        /\ \E r \in Returned(loc[p].records), q \in ledger \ Returned(loc[p].records) :
              r.participation_date = q.participation_date

\* The k-th smallest number of the set I.
Nth(I, k) == CHOOSE i \in I : Cardinality({j \in I : j < i}) = k - 1

\* C16: the rows a run read are the rows of the table with their dates
\* formatted; in each group of the summary, dates holds the formatted date of
\* every row of the group in the order the rows were read, and videos holds
\* the titles of the rows of the group whose title is not NULL, in that
\* order; a row without title adds nothing to videos.
C16_GroupFieldsFollowReadOrder ==
    \A p \in Procs :
        LET df == loc[p].df
            summary == loc[p].report_summary
        IN  df # <<>> =>
              /\ Len(df) = Cardinality(ledger)
              /\ \A i \in 1..Len(df) :
                    /\ \E r \in ledger :
                          /\ r.id = df[i].id
                          /\ df[i].participation_date = StrfMinute(r.participation_date)
                          /\ df[i].video_title = r.video_title
                    /\ \A j \in 1..Len(df) : i # j => df[i].id # df[j].id
              /\ \A g \in 1..Len(summary) :
                    LET members == {i \in 1..Len(df) :
                                       df[i].profile_name = summary[g].profile_name}
                        titled  == {i \in members : df[i].video_title # None}
                    IN  /\ Len(summary[g].dates) = Cardinality(members)
                        /\ \A k \in 1..Cardinality(members) :
                              summary[g].dates[k] = df[Nth(members, k)].participation_date
                        /\ Len(summary[g].videos) = Cardinality(titled)
                        /\ \A k \in 1..Cardinality(titled) :
                              summary[g].videos[k] = df[Nth(titled, k)].video_title

\* C16's case: rows of "Ana" with title "x" and then with none, then a row of
\* the other sender with none: the summary has "Ana" with two dates and the
\* video "x", and the other sender with one date and no video.
C16_Witness ==
    \E p \in Procs :
        /\ Len(loc[p].df) = 3
        /\ Len(loc[p].report_summary) = 2
        /\ loc[p].report_summary[1].profile_name = "Ana"
        /\ loc[p].report_summary[1].dates = <<StrfMinute(1), StrfMinute(2)>>
        /\ loc[p].report_summary[1].videos = <<<<"x">>>>
        /\ loc[p].report_summary[2].total_participations = 1
        /\ loc[p].report_summary[2].videos = <<>>

\* C17: a call of init_db leaves the table in place with every row as it was
\* and the AUTOINCREMENT counter as it was, whatever the table holds and
\* however many calls came before; the first call makes the empty table.
C17_InitDbIsIdempotent ==
    [][init_calls' # init_calls =>
          /\ schema'
          /\ schema => (ledger' = ledger /\ sqlite_sequence' = sqlite_sequence)
          /\ ~schema => (ledger' = {} /\ sqlite_sequence' = 0)
      ]_vars

\* C17's case: init_db was called three times, the last time on a table that
\* held one row and had lost another (the counter was at 2); the row and the
\* counter are as they were.
C17_Witness ==
    /\ Len(init_calls) = 3
    /\ init_calls[1] = FirstCall
    /\ init_calls[3] = [exists |-> TRUE, rows |-> 1, seq |-> 2]
    /\ Cardinality(ledger) = 1
    /\ sqlite_sequence = 2

\* C18: no step removes a row whose whatsapp_number is not the
\* administrator's, whatever the interleaving of the requests: a step that
\* removes a row is the DELETE of an undo request of the administrator, and
\* the number of rows of any other sender never goes down.
C18_OnlyAdminRowsAreDeleted ==
    [][/\ \A r \in ledger : r.whatsapp_number # ADMIN_PHONE_NUMBER => r \in ledger'
       /\ \A n \in Senders \ {ADMIN_PHONE_NUMBER} :
             Cardinality(BySender(ledger', n)) >= Cardinality(BySender(ledger, n))
       /\ ~(ledger \subseteq ledger') =>
             \E p \in Workers : /\ pc[p] = "undo_delete"
                                /\ pc'[p] = "reply"
                                /\ loc[p].from_number = ADMIN_PHONE_NUMBER
      ]_vars

\* C18's case: of two concurrent undo requests of the administrator the later
\* DELETE found its row gone, and the other sender's row, inserted in between
\* or before, is in the table.
C18_Witness ==
    \E p \in Workers :
        /\ pc[p] = "reply"
        /\ loc[p].response_msg = <<"removed">>
        /\ loc[p].rowcount = 0
        /\ RowsOf(MEMBER_PHONE_NUMBER) # {}

\* What get_user_history returns for the rows s.
HistoryRows(s) == [i \in 1..Len(s) |-> HistoryRow(s[i])]

\* C19: when delete_last_user_record(S) has removed a row, get_user_history(S)
\* returns what it returned before without its first element, also when rows
\* of S have the same timestamp.
C19_UndoRemovesFirstOfHistory ==
    [][\A p \in Workers :
         (pc[p] = "undo_delete" /\ pc'[p] = "reply" /\ ledger' # ledger) =>
             \A before \in get_user_history(ledger, loc[p].from_number),
                after \in get_user_history(ledger', loc[p].from_number) :
                 HistoryRows(after) = Tail(HistoryRows(before))
      ]_vars

\* The processes that are in a report run.
InReportRun ==
    {p \in Procs : pc[p] \in {"rep_read", "rep_notify_empty", "csv_open", "csv_close",
                               "xlsx_open", "xlsx_close", "rep_notify"}}

\* C20: when no report run is under way and the export files were written,
\* the CSV file and the XLSX file hold the summary of one reading of the
\* table, whatever the interleaving of scheduled runs, runs on demand and
\* changes of the table.
C20_ExportsHoldOneSnapshot ==
    (/\ InReportRun = {}
     /\ files[CSV].exists
     /\ files[XLSX].exists)
    => files[CSV].data = files[XLSX].data

====
